---- MODULE Spec2Model ----
(***************************************************************************)
(* RAG-Assistant: the index build (generate_embeddings.py), retrieval and  *)
(* prompt assembly (rag.py), the Streamlit front end (app.py) and the      *)
(* command-line loop (rag.main).                                           *)
(*                                                                         *)
(* A Python str is a sequence of one-character strings; a fixed block of   *)
(* template text that holds no newline is one element of the sequence.     *)
(***************************************************************************)
EXTENDS Integers, Sequences, FiniteSets, TLC

VARIABLES
    cwd,              \* file name -> "missing" | "corrupt" | "ok": what a relative path finds
    books_dir,        \* BOOKS_DIR on disk: [exists, files]
    persist,          \* PERSIST_DIRECTORY on disk: [state, index]
    rag_system,       \* st.session_state.rag_system / the local `rag` of rag.main
    pc,               \* position of the running script
    pressed,          \* st.button("Envoyer") of the current script run
    user_query,       \* the question of the current request
    selected_sources, \* the selected_sources argument of the current request
    k_arg,            \* the k argument of the current request
    search_results,   \* what similarity_search returned
    context,          \* context returned by get_relevant_context
    sources,          \* sources returned by get_relevant_context
    prompt,           \* the prompt returned by generate_prompt
    sent,             \* the prompt handed to model.generate_content
    answer,           \* [ok, text]: outcome of the last generate_answer
    calls,            \* the calls made by the current script run / request, in order
    shown,            \* what the front end displayed in the current run
    missing_files,    \* the books check_pdf_files listed in the current run
    build,            \* record of the last run of the build pipeline
    n_builds,         \* successful index builds so far
    n_instances,      \* RAGSystem objects constructed so far
    pdf_paths,        \* the pdf_paths argument of load_documents
    docs,             \* the documents load_documents returned
    loaded            \* load_documents has returned

vars == <<cwd, books_dir, persist, rag_system, pc, pressed, user_query,
          selected_sources, k_arg, search_results, context, sources, prompt,
          sent, answer, calls, shown, missing_files, build, n_builds,
          n_instances, pdf_paths, docs, loaded>>

----------------------------------------------------------------------------
(* Bounds of the model *)

MaxResults == 2   \* most chunks in an index that is searched with arbitrary input
MaxPaths == 2     \* longest pdf_paths list given to load_documents
MaxSources == 2   \* longest sources list given to generate_prompt
MaxCount == 2     \* cap of the build and instance counters

----------------------------------------------------------------------------
(* Python strings *)

NL == "\n"
BACKSLASH == "\\"

\* 'Unknown source' (rag.py:86, generate_embeddings.py:93)
UNKNOWN_SOURCE == <<"U","n","k","n","o","w","n"," ","s","o","u","r","c","e">>
\* 'Unknown page' (rag.py:91, generate_embeddings.py:93)
UNKNOWN_PAGE == <<"U","n","k","n","o","w","n"," ","p","a","g","e">>

\* `sub in s` on str
Contains(s, sub) ==
    \E i \in 0..(Len(s) - Len(sub)) : SubSeq(s, i + 1, i + Len(sub)) = sub

\* os.path.basename: what follows the last "/"
Basename(p) ==
    LET slashes == {i \in 1..Len(p) : p[i] = "/"}
        last == IF slashes = {} THEN 0
                ELSE CHOOSE i \in slashes : \A j \in slashes : j <= i
    IN SubSeq(p, last + 1, Len(p))

\* A replace that leaves the string as it is
ReplaceNewlinesNone(s) == s

\* str.replace("\n", "\\n")
RECURSIVE ReplaceNewlines(_)
ReplaceNewlines(s) ==
    IF s = <<>> THEN <<>>
    ELSE (IF Head(s) = NL THEN <<BACKSLASH, "n">> ELSE <<Head(s)>>)
         \o ReplaceNewlines(Tail(s))

Digit(d) == <<"0","1","2","3","4","5","6","7","8","9">>[d + 1]

\* str(n) of a non-negative int
RECURSIVE StrOfInt(_)
StrOfInt(n) ==
    IF n < 10 THEN <<Digit(n)>> ELSE StrOfInt(n \div 10) \o <<Digit(n % 10)>>

\* sep.join(parts)
RECURSIVE Join(_, _)
Join(sep, parts) ==
    IF parts = <<>> THEN <<>>
    ELSE IF Len(parts) = 1 THEN parts[1]
    ELSE parts[1] \o sep \o Join(sep, Tail(parts))

IsSpace(c) == c \in {" ", NL}

\* str.strip()
RECURSIVE LStrip(_)
LStrip(s) == IF s # <<>> /\ IsSpace(Head(s)) THEN LStrip(Tail(s)) ELSE s
RECURSIVE RStrip(_)
RStrip(s) ==
    IF s # <<>> /\ IsSpace(s[Len(s)]) THEN RStrip(SubSeq(s, 1, Len(s) - 1)) ELSE s
Strip(s) == RStrip(LStrip(s))

----------------------------------------------------------------------------
(* Documents and their metadata *)

\* A metadata value of key 'page': an int (PyPDFLoader) or a str (the sentinel)
PInt(n) == [isInt |-> TRUE, n |-> n, s |-> <<>>]
PStr(s) == [isInt |-> FALSE, n |-> 0, s |-> s]

\* A metadata dict: the keys it holds and the values of 'source' and 'page'
Meta(keys, source, page) == [keys |-> keys, source |-> source, page |-> page]
EmptyMeta == Meta({}, <<>>, PStr(<<>>))

Document(page_content, metadata) ==
    [page_content |-> page_content, metadata |-> metadata]

\* rag.py:17-21
Source(name, page) == [name |-> name, page |-> page]

\* `if not doc.metadata` / `if result.metadata`
MetaTruthy(m) == m.keys # {}

----------------------------------------------------------------------------
(* config.py *)

\* The titles of BOOKS_MAP in the dict's order (config.py:36-40)
BookTitles == <<"Harry Potter 1", "Harry Potter 2", "Hunger Games">>

\* config.py:36-40. The three file names are abbreviated; as in the source,
\* none is a substring of another and the first two share a prefix.
BOOKS_MAP ==
    [t \in {BookTitles[i] : i \in 1..Len(BookTitles)} |->
        CASE t = "Harry Potter 1" -> <<"h", "1">>
          [] t = "Harry Potter 2" -> <<"h", "2">>
          [] t = "Hunger Games" -> <<"g">>]

\* list(BOOKS_MAP.values())
BookFiles == [i \in 1..Len(BookTitles) |-> BOOKS_MAP[BookTitles[i]]]
FileNames == {BookFiles[i] : i \in 1..Len(BookFiles)}

----------------------------------------------------------------------------
(* The file system and the libraries *)

FileStatus == {"missing", "corrupt", "ok"}

\* Path(path).exists() and what PyPDFLoader(path).load() does, for a relative path
StatusOf(fs, path) == IF path \in DOMAIN fs THEN fs[path] ELSE "missing"

\* The text of the pages of each PDF: two pages, one page, one page without text
PdfText(path) ==
    CASE Basename(path) = <<"h", "1">> -> << <<"a", NL, "b">>, <<"c", NL>> >>
      [] Basename(path) = <<"h", "2">> -> << <<"d">> >>
      [] Basename(path) = <<"g">> -> << <<" ", NL>> >>
      [] OTHER -> << >>

\* PyPDFLoader(path).load(): one Document per page, metadata source and page
PyPDFLoad(path) ==
    [i \in 1..Len(PdfText(path)) |->
        Document(PdfText(path)[i], Meta({"source", "page"}, path, PInt(i - 1)))]

\* RecursiveCharacterTextSplitter.split_documents on texts shorter than
\* CHUNK_SIZE: the stripped text as one chunk with the document's metadata,
\* no chunk for a text that is empty once stripped.
SplitDocument(doc) ==
    IF Strip(doc.page_content) = <<>> THEN <<>>
    ELSE <<Document(Strip(doc.page_content), doc.metadata)>>

RECURSIVE SplitDocuments(_)
SplitDocuments(ds) ==
    IF ds = <<>> THEN <<>> ELSE SplitDocument(Head(ds)) \o SplitDocuments(Tail(ds))

\* Chroma.similarity_search(query, k): min(k, n) distinct entries of the index,
\* most similar first; the order depends on the embedding, so any order.
SimilaritySearch(index, k) ==
    LET n == IF k < Len(index) THEN k ELSE Len(index)
        picks == {f \in [1..n -> 1..Len(index)] :
                    \A i, j \in 1..n : i # j => f[i] # f[j]}
    IN {[i \in 1..n |-> index[f[i]]] : f \in picks}

----------------------------------------------------------------------------
(* generate_embeddings.py: DocumentProcessor *)

\* A load loop that gives up at the first file whose extraction raises
RECURSIVE LoadLoopAbort(_, _, _, _)
LoadLoopAbort(paths, fs, i, acc) ==
    IF i > Len(paths) THEN acc
    ELSE IF StatusOf(fs, paths[i]) = "missing" THEN LoadLoopAbort(paths, fs, i + 1, acc)
    ELSE IF StatusOf(fs, paths[i]) = "corrupt" THEN acc
    ELSE LoadLoopAbort(paths, fs, i + 1, acc \o PyPDFLoad(paths[i]))

\* The loop of load_documents from position i on, docs so far in acc
RECURSIVE LoadLoop(_, _, _, _)
LoadLoop(paths, fs, i, acc) ==
    IF i > Len(paths) THEN acc
    ELSE IF StatusOf(fs, paths[i]) = "missing" THEN LoadLoop(paths, fs, i + 1, acc)
    ELSE IF StatusOf(fs, paths[i]) = "corrupt" THEN LoadLoop(paths, fs, i + 1, acc)
    ELSE LoadLoop(paths, fs, i + 1, acc \o PyPDFLoad(paths[i]))

load_documents(paths, fs) == LoadLoop(paths, fs, 1, <<>>)

\* process_documents without the substitution of the sentinels
EnsureMetadataSkipped(doc) == doc

\* generate_embeddings.py:91-93
EnsureMetadata(doc) ==
    IF ~MetaTruthy(doc.metadata)
    THEN Document(doc.page_content,
                  Meta({"source", "page"}, UNKNOWN_SOURCE, PStr(UNKNOWN_PAGE)))
    ELSE doc

process_documents(ds) ==
    IF ds = <<>> THEN <<>>
    ELSE LET split_docs == SplitDocuments(ds)
         IN [i \in 1..Len(split_docs) |-> EnsureMetadata(split_docs[i])]

PersistEmpty(p) == p.state \in {"absent", "empty"}

\* create_vectorstore without its check of an empty docs
create_vectorstore_unguarded(ds, p, chroma) ==
    IF chroma = "ok"
    THEN [raised |-> "", persist |-> [state |-> "nonempty", index |-> p.index \o ds]]
    ELSE IF chroma = "partial"
         THEN [raised |-> "ChromaError", persist |-> [state |-> "nonempty", index |-> p.index]]
    ELSE [raised |-> "ChromaError", persist |-> p]

\* create_vectorstore(docs, persist_directory). chroma is what
\* Chroma.from_documents does: "ok", "fail" (raises, nothing written) or
\* "partial" (raises after it has created files).
create_vectorstore(ds, p, chroma) ==
    IF ds = <<>> THEN [raised |-> "ValueError", persist |-> p]
    ELSE IF chroma = "ok"
         THEN [raised |-> "", persist |-> [state |-> "nonempty", index |-> p.index \o ds]]
    ELSE IF chroma = "partial"
         THEN [raised |-> "ChromaError", persist |-> [state |-> "nonempty", index |-> p.index]]
    ELSE [raised |-> "ChromaError", persist |-> p]

----------------------------------------------------------------------------
(* rag.py: RAGSystem *)

\* The selected_sources argument: None, or a list, of which only membership is read
NoFilter == [none |-> TRUE, items |-> {}]
Filter(items) == [none |-> FALSE, items |-> items]

\* `if selected_sources` (rag.py:88)
FilterTruthy(sel) == ~sel.none /\ sel.items # {}

\* result.metadata.get('source', 'Unknown source') (rag.py:86)
SourceName(m) == IF "source" \in m.keys THEN m.source ELSE UNKNOWN_SOURCE

\* result.metadata.get('page', 'Unknown page') (rag.py:91)
PageNum(m) == IF "page" \in m.keys THEN m.page ELSE PStr(UNKNOWN_PAGE)

\* A filter that drops nothing
FilteredOutNever(result, sel) == FALSE

\* rag.py:88-89: the result is skipped by `continue`
FilteredOut(result, sel) ==
    FilterTruthy(sel)
    /\ ~\E src \in sel.items : Contains(SourceName(result.metadata), src)

\* rag.py:85-89: the loop body reaches line 91 for this result
Kept(result, sel) == MetaTruthy(result.metadata) /\ ~FilteredOut(result, sel)

\* rag.py:86, 91, 93-96
SourceOf(result) ==
    LET source_name == SourceName(result.metadata)
    IN Source(IF source_name # UNKNOWN_SOURCE THEN Basename(source_name)
              ELSE source_name,
              PageNum(result.metadata))

\* A loop that puts each kept result in front of the earlier ones
RECURSIVE ContextLoopReversed(_, _, _, _)
ContextLoopReversed(results, sel, ctx, srcs) ==
    IF results = <<>> THEN [context |-> ctx, sources |-> srcs]
    ELSE IF MetaTruthy(Head(results).metadata)
            /\ (~(~sel.none /\ sel.items # {})
                \/ \E src \in sel.items :
                      Contains(IF "source" \in Head(results).metadata.keys
                               THEN Head(results).metadata.source
                               ELSE UNKNOWN_SOURCE, src))
         THEN ContextLoopReversed(Tail(results), sel,
                                  Head(results).page_content \o <<NL>> \o ctx,
                                  <<[name |-> (IF "source" \in Head(results).metadata.keys
                                                  /\ Head(results).metadata.source # UNKNOWN_SOURCE
                                               THEN Basename(Head(results).metadata.source)
                                               ELSE UNKNOWN_SOURCE),
                                     page |-> (IF "page" \in Head(results).metadata.keys
                                               THEN Head(results).metadata.page
                                               ELSE PStr(UNKNOWN_PAGE))]>> \o srcs)
    ELSE ContextLoopReversed(Tail(results), sel, ctx, srcs)

\* rag.py:81-98: the loop over search_results
RECURSIVE ContextLoop(_, _, _, _)
ContextLoop(results, sel, ctx, srcs) ==
    IF results = <<>> THEN [context |-> ctx, sources |-> srcs]
    ELSE IF Kept(Head(results), sel)
         THEN ContextLoop(Tail(results), sel,
                          ctx \o Head(results).page_content \o <<NL>>,
                          Append(srcs, SourceOf(Head(results))))
    ELSE ContextLoop(Tail(results), sel, ctx, srcs)

\* get_relevant_context after similarity_search has returned results
get_relevant_context(results, sel) == ContextLoop(results, sel, <<>>, <<>>)

\* f"{source.page}"
PageStr(p) == IF p.isInt THEN StrOfInt(p.n) ELSE p.s

\* rag.py:104: f"Source {i}: {source.name}, Page: {source.page}"
SourceLine(i, source) ==
    <<"Source ">> \o StrOfInt(i) \o <<": ">> \o source.name \o <<", Page: ">>
    \o PageStr(source.page)

\* rag.py:103-106
SourcesText(srcs) == Join(<<NL>>, [i \in 1..Len(srcs) |-> SourceLine(i, srcs[i])])

\* The fixed text of the template (rag.py:108-125), one element per line of
\* text, indentation left out
PROMPT_HEAD ==
    <<NL, "Vous etes un assistant utile et informatif [...]", NL, NL,
      "TRES IMPORTANT: [...]", NL, "[Source: nom_du_document, Page: numero_de_page]",
      NL, NL, "Voici les sources disponibles:", NL>>
PROMPT_QUESTION == <<NL, NL, "QUESTION: '">>
PROMPT_CONTEXT == <<"'", NL, "CONTEXTE: '">>
PROMPT_TAIL == <<"'", NL, NL, "REPONSE:", NL>>

\* rag.py:100-125
generate_prompt(query, ctx, srcs) ==
    LET escaped == ReplaceNewlines(ctx)
        sources_text == SourcesText(srcs)
    IN PROMPT_HEAD \o sources_text \o PROMPT_QUESTION \o query
       \o PROMPT_CONTEXT \o escaped \o PROMPT_TAIL

----------------------------------------------------------------------------
(* config.py: the paths under BOOKS_DIR; generate_embeddings.main *)

\* config.py:22: BASE_DIR / "livres", as a relative path
BOOKS_DIR == <<"l", "i", "v", "r", "e", "s">>

\* config.py:43
PDF_PATHS == [i \in 1..Len(BookFiles) |-> BOOKS_DIR \o <<"/">> \o BookFiles[i]]

\* What a path under BOOKS_DIR finds, given the directory's content
DirFs(bd) ==
    [path \in {PDF_PATHS[i] : i \in 1..Len(PDF_PATHS)} |->
        IF bd.exists /\ Basename(path) \in bd.files THEN "ok" ELSE "missing"]

AbsentDir == [state |-> "absent", index |-> <<>>]
EmptyDir == [state |-> "empty", index |-> <<>>]

\* generate_embeddings.py:122-139: PERSIST_DIRECTORY after main() ran on an
\* absent directory
MainBuilt(bd) ==
    create_vectorstore(process_documents(load_documents(PDF_PATHS, DirFs(bd))),
                       AbsentDir, "ok").persist

----------------------------------------------------------------------------
(* Values of the front ends *)

\* rag.py:67: k: int = 20
DEFAULT_K == 20

NoRag == [cached |-> FALSE, id |-> 0]
NoAnswer == [ok |-> FALSE, text |-> <<>>]
NoBuild == [ran |-> FALSE, raw_docs |-> <<>>, processed_docs |-> <<>>,
            raised |-> "", before |-> AbsentDir, after |-> AbsentDir]

QueryPool == {<<>>, <<"q">>}
TitleSet == {BookTitles[i] : i \in 1..Len(BookTitles)}
BooksDirPool ==
    {[exists |-> FALSE, files |-> {}]}
    \cup {[exists |-> TRUE, files |-> fsub] : fsub \in {{}, {<<"h", "1">>}, FileNames}}

\* What a request has produced, before it has produced anything
ResultsCleared ==
    /\ search_results' = <<>>
    /\ context' = <<>>
    /\ sources' = <<>>
    /\ prompt' = <<>>
    /\ sent' = <<>>
    /\ answer' = NoAnswer

requestVars == <<user_query, selected_sources, k_arg, search_results, context,
                 sources, prompt, sent, answer>>
diskVars == <<cwd, books_dir, persist>>
loadVars == <<pdf_paths, docs, loaded>>
buildVars == <<build, n_builds>>

----------------------------------------------------------------------------
(* app.py: one Streamlit session; every interaction reruns main() *)

\* app.py:8-33, as a value: the books listed and the directory afterwards
check_pdf_files(fs, bd) ==
    LET missing == SelectSeq(BookTitles,
                             LAMBDA t : StatusOf(fs, BOOKS_MAP[t]) = "missing")
    IN [ok |-> missing = <<>>,
        missing_files |-> [i \in 1..Len(missing) |->
                             [title |-> missing[i],
                              name |-> Basename(BOOKS_MAP[missing[i]])]],
        books_dir |-> [exists |-> TRUE, files |-> bd.files]]

\* app.py:68: 'rag_system' in st.session_state
IsCachedNever(rs) == FALSE
IsCached(rs) == rs.cached

\* app.py:74-91: the script starts with the widgets' values
Rerun ==
    /\ pc = "idle"
    /\ \E p \in BOOLEAN, q \in QueryPool, selected_books \in SUBSET TitleSet :
          /\ pressed' = p
          /\ user_query' = q
          /\ selected_sources' = Filter({BOOKS_MAP[b] : b \in selected_books})
    /\ k_arg' = DEFAULT_K
    /\ ResultsCleared
    /\ calls' = <<>>
    /\ shown' = <<>>
    /\ missing_files' = <<>>
    /\ pc' = "initialize_rag"
    /\ UNCHANGED <<diskVars, rag_system, buildVars, n_instances, loadVars>>

\* app.py:68, 72: 'rag_system' is in st.session_state
InitializeRagCached ==
    /\ pc = "initialize_rag"
    /\ IsCached(rag_system)
    /\ pc' = "query_input"
    /\ UNCHANGED <<diskVars, rag_system, pressed, requestVars, calls, shown,
                   missing_files, buildVars, n_instances, loadVars>>

\* app.py:68-69, 44-45 and check_pdf_files
CheckPdfFiles ==
    /\ pc = "initialize_rag"
    /\ ~IsCached(rag_system)
    /\ LET r == check_pdf_files(cwd, books_dir)
       IN /\ books_dir' = r.books_dir
          /\ missing_files' = r.missing_files
          /\ calls' = Append(calls, "check_pdf_files")
          /\ IF r.ok
             THEN /\ pc' = "create_embeddings"
                  /\ shown' = IF books_dir.exists THEN shown
                              ELSE Append(shown, "error:no_books_dir")
             ELSE /\ pc' = "idle"        \* st.stop()
                  /\ shown' = (IF books_dir.exists THEN shown
                               ELSE Append(shown, "error:no_books_dir"))
                              \o <<"error:missing_files">>
    /\ UNCHANGED <<cwd, persist, rag_system, pressed, requestVars, buildVars,
                   n_instances, loadVars>>

\* app.py:47-57 (and main's handler, app.py:96-98, when the build raises).
\* processor_ok: DocumentProcessor() loaded its embedding model.
CreateEmbeddingsIfNeeded ==
    /\ pc = "create_embeddings"
    /\ IF ~PersistEmpty(persist)
       THEN /\ pc' = "construct"
            /\ UNCHANGED <<persist, calls, shown, buildVars>>
       ELSE /\ n_builds < MaxCount
            /\ \E processor_ok \in BOOLEAN, chroma \in {"ok", "fail", "partial"} :
                 IF ~processor_ok
                 THEN /\ calls' = Append(calls, "DocumentProcessor")
                      /\ shown' = shown \o <<"error:index", "error:init">>
                      /\ pc' = "idle"
                      /\ UNCHANGED <<persist, buildVars>>
                 ELSE LET raw_docs == load_documents(BookFiles, cwd)
                          processed_docs == process_documents(raw_docs)
                          r == create_vectorstore(processed_docs, persist, chroma)
                      IN /\ calls' = calls \o <<"DocumentProcessor", "load_documents",
                                                "process_documents", "create_vectorstore">>
                         /\ build' = [ran |-> TRUE, raw_docs |-> raw_docs,
                                      processed_docs |-> processed_docs,
                                      raised |-> r.raised, before |-> persist,
                                      after |-> r.persist]
                         /\ persist' = r.persist
                         /\ IF r.raised = ""
                            THEN /\ n_builds' = n_builds + 1
                                 /\ shown' = Append(shown, "success:index")
                                 /\ pc' = "construct"
                            ELSE /\ n_builds' = n_builds
                                 /\ shown' = shown \o <<"error:index", "error:init">>
                                 /\ pc' = "idle"
    /\ UNCHANGED <<cwd, books_dir, rag_system, pressed, requestVars,
                   missing_files, n_instances, loadVars>>

\* app.py:70-72 (and app.py:96-98 when RAGSystem() raises)
ConstructRag ==
    /\ pc = "construct"
    /\ n_instances < MaxCount
    /\ calls' = Append(calls, "RAGSystem")
    /\ \E ok \in BOOLEAN :
         IF ok
         THEN /\ rag_system' = [cached |-> TRUE, id |-> n_instances + 1]
              /\ n_instances' = n_instances + 1
              /\ shown' = shown
              /\ pc' = "query_input"
         ELSE /\ shown' = Append(shown, "error:init")
              /\ pc' = "idle"
              /\ UNCHANGED <<rag_system, n_instances>>
    /\ UNCHANGED <<diskVars, pressed, requestVars, missing_files, buildVars,
                   loadVars>>

\* A submit that goes on without looking at the selection
SubmitOutcomeUnchecked(q, sel) == IF q # <<>> THEN "process" ELSE "warn_question"

\* app.py:103-121: what a press of "Envoyer" leads to
SubmitOutcome(q, sel) ==
    IF q # <<>>
    THEN IF sel.items = {} THEN "warn_source" ELSE "process"
    ELSE "warn_question"

\* app.py:103, 124-130: the button was not pressed
NoSubmit ==
    /\ pc = "query_input"
    /\ ~pressed
    /\ shown' = Append(shown, "examples")
    /\ pc' = "idle"
    /\ UNCHANGED <<diskVars, rag_system, pressed, requestVars, calls,
                   missing_files, buildVars, n_instances, loadVars>>

\* app.py:103-109, 120-121
Submit ==
    /\ pc = "query_input"
    /\ pressed
    /\ LET o == SubmitOutcome(user_query, selected_sources)
       IN /\ o = "process" => pc' = "retrieve" /\ shown' = shown
          /\ o = "warn_source" =>
                pc' = "idle" /\ shown' = Append(shown, "warning:no_source")
          /\ o = "warn_question" =>
                pc' = "idle" /\ shown' = shown \o <<"warning:no_question", "examples">>
    /\ UNCHANGED <<diskVars, rag_system, pressed, requestVars, calls,
                   missing_files, buildVars, n_instances, loadVars>>

\* app.py:112 (and 118-119 when the search raises)
Retrieve ==
    /\ pc = "retrieve"
    /\ calls' = Append(calls, "similarity_search")
    /\ \/ \E results \in SimilaritySearch(persist.index, k_arg) :
             LET r == get_relevant_context(results, selected_sources)
             IN /\ search_results' = results
                /\ context' = r.context
                /\ sources' = r.sources
                /\ shown' = shown
                /\ pc' = "prompt"
       \/ /\ shown' = shown \o <<"error:query", "examples">>
          /\ pc' = "idle"
          /\ UNCHANGED <<search_results, context, sources>>
    /\ UNCHANGED <<diskVars, rag_system, pressed, user_query, selected_sources,
                   k_arg, prompt, sent, answer, missing_files, buildVars,
                   n_instances, loadVars>>

\* app.py:113
Prompt ==
    /\ pc = "prompt"
    /\ calls' = Append(calls, "generate_prompt")
    /\ prompt' = generate_prompt(user_query, context, sources)
    /\ pc' = "answer"
    /\ UNCHANGED <<diskVars, rag_system, pressed, user_query, selected_sources,
                   k_arg, search_results, context, sources, sent, answer, shown,
                   missing_files, buildVars, n_instances, loadVars>>

\* What generate_content(prompt).text can be
AnswerPool == {<<"A">>}

\* app.py:114-119 and rag.py:127-130
Answer ==
    /\ pc = "answer"
    /\ calls' = Append(calls, "generate_content")
    /\ sent' = prompt
    /\ \/ \E text \in AnswerPool :
             /\ answer' = [ok |-> TRUE, text |-> text]
             /\ shown' = shown \o <<"answer", "examples">>
       \/ /\ answer' = NoAnswer
          /\ shown' = shown \o <<"error:query", "examples">>
    /\ pc' = "idle"
    /\ UNCHANGED <<diskVars, rag_system, pressed, user_query, selected_sources,
                   k_arg, search_results, context, sources, prompt,
                   missing_files, buildVars, n_instances, loadVars>>

\* The session starts with nothing cached; the index directory is absent,
\* empty, or was built earlier by generate_embeddings.main
Init ==
    /\ cwd \in [FileNames -> FileStatus]
    /\ books_dir \in BooksDirPool
    /\ persist \in {AbsentDir, EmptyDir}
                   \cup {p \in {MainBuilt(books_dir)} : p.state = "nonempty"}
    /\ rag_system = NoRag
    /\ pc = "idle"
    /\ pressed = FALSE
    /\ user_query = <<>>
    /\ selected_sources = NoFilter
    /\ k_arg = DEFAULT_K
    /\ search_results = <<>>
    /\ context = <<>>
    /\ sources = <<>>
    /\ prompt = <<>>
    /\ sent = <<>>
    /\ answer = NoAnswer
    /\ calls = <<>>
    /\ shown = <<>>
    /\ missing_files = <<>>
    /\ build = NoBuild
    /\ n_builds = 0
    /\ n_instances = 0
    /\ pdf_paths = <<>>
    /\ docs = <<>>
    /\ loaded = FALSE

Next ==
    \/ Rerun
    \/ InitializeRagCached
    \/ CheckPdfFiles
    \/ CreateEmbeddingsIfNeeded
    \/ ConstructRag
    \/ NoSubmit
    \/ Submit
    \/ Retrieve
    \/ Prompt
    \/ Answer

Spec == Init /\ [][Next]_vars

----------------------------------------------------------------------------
(* Properties of the Streamlit session (Spec) *)

Range(seq) == {seq[i] : i \in 1..Len(seq)}
Count(seq, x) == Cardinality({i \in 1..Len(seq) : seq[i] = x})
\* x occurs in seq, and only before the first y
Before(seq, x, y) ==
    \E i \in 1..Len(seq) : seq[i] = x /\ \A j \in 1..i : seq[j] # y

PipelineCalls == {"load_documents", "process_documents", "create_vectorstore"}
InitCalls == PipelineCalls \cup {"check_pdf_files", "DocumentProcessor", "RAGSystem"}

\* C1: a build whose chunk sequence is empty fails with the empty-index error
\* and writes nothing; when load_documents yielded no documents the build
\* failed, the index directory is still absent or empty, and no RAGSystem
\* is cached.
C1_EmptyBuildFails ==
    /\ build.ran /\ build.processed_docs = <<>> =>
          /\ build.raised = "ValueError"
          /\ build.after = build.before
          /\ build.after.state \in {"absent", "empty"}
    /\ build.ran /\ build.raw_docs = <<>> =>
          /\ build.processed_docs = <<>>
          /\ build.raised = "ValueError"
          /\ persist.state \in {"absent", "empty"}
          /\ persist.index = <<>>
          /\ n_builds = 0
          /\ ~rag_system.cached

\* Every PDF exists but none can be read: load_documents returned nothing
\* and the build has failed
C1_Witness ==
    /\ build.ran
    /\ build.raw_docs = <<>>
    /\ pc = "idle"
    /\ "create_vectorstore" \in Range(calls)
    /\ "error:index" \in Range(shown)

\* C5: check_pdf_files lists a book exactly when its PDF is absent from
\* BOOKS_DIR, with its title and file name; when a book is listed the build
\* pipeline is not invoked and no RAGSystem is cached.
C5_MissingIffAbsentFromBooksDir ==
    "check_pdf_files" \in Range(calls) =>
        /\ Range(missing_files) =
              {[title |-> t, name |-> BOOKS_MAP[t]] :
                  t \in {u \in TitleSet : BOOKS_MAP[u] \notin books_dir.files}}
        /\ missing_files # <<>> =>
              /\ Range(calls) \cap PipelineCalls = {}
              /\ ~rag_system.cached

C7_Inv ==
    /\ n_builds <= 1
    /\ n_instances <= 1
    /\ build.ran => build.before.state \in {"absent", "empty"}
    /\ rag_system.cached => persist.state = "nonempty"
    /\ Range(calls) \cap {"similarity_search", "generate_content"} # {} =>
          rag_system = [cached |-> TRUE, id |-> 1]

C7_Step ==
    /\ rag_system.cached =>
          /\ rag_system' = rag_system
          /\ persist' = persist
          /\ build' = build
          /\ n_builds' = n_builds
          /\ n_instances' = n_instances
          /\ Range(calls') \cap InitCalls \subseteq Range(calls) \cap InitCalls
    /\ ~rag_system.cached /\ rag_system'.cached =>
          /\ calls[1] = "check_pdf_files"
          /\ missing_files = <<>>
          /\ \A t \in TitleSet : cwd[BOOKS_MAP[t]] # "missing"
          /\ persist.state = "nonempty"
          /\ "create_vectorstore" \in Range(calls) => build.raised = ""
    /\ n_builds' > n_builds => persist.state \in {"absent", "empty"}

\* C7: the build pipeline runs only when the index directory is absent or
\* empty at the check, and succeeds at most once; once a RAGSystem is cached
\* no later run checks the files, builds or constructs a RAGSystem, and that
\* one instance serves every query; a RAGSystem is cached only after the file
\* check passed and the directory was non-empty already or built without error.
C7_BuildOnceCacheOnce == []C7_Inv /\ [][C7_Step]_vars

\* A later run of the script, served by the instance an earlier run cached
\* after it built the index
C7_Witness ==
    /\ n_builds = 1
    /\ rag_system.cached
    /\ calls = <<"similarity_search", "generate_prompt", "generate_content">>

\* C10: a press of the submit action makes at most one generative-model call,
\* after retrieval and then prompt assembly of the same query, carrying the
\* prompt assembled from that query's context and sources; with an empty
\* question or no book selected it makes no retrieval and no model call and
\* shows a warning, so retrieval never runs with an empty selection.
C10_OneCallPerSubmit ==
    /\ Count(calls, "generate_content") <= 1
    /\ Count(calls, "similarity_search") <= 1
    /\ "generate_content" \in Range(calls) =>
          /\ pressed
          /\ Before(calls, "similarity_search", "generate_prompt")
          /\ Before(calls, "generate_prompt", "generate_content")
          /\ context = get_relevant_context(search_results, selected_sources).context
          /\ sources = get_relevant_context(search_results, selected_sources).sources
          /\ prompt = generate_prompt(user_query, context, sources)
          /\ sent = prompt
    /\ "generate_content" \notin Range(calls) => sent = <<>>
    /\ "similarity_search" \in Range(calls) =>
          pressed /\ user_query # <<>> /\ selected_sources.items # {}
    /\ pressed /\ pc = "idle" /\ rag_system.cached
       /\ (user_query = <<>> \/ selected_sources.items = {}) =>
          /\ Range(calls) \cap {"similarity_search", "generate_content"} = {}
          /\ Range(shown) \cap {"warning:no_source", "warning:no_question"} # {}
          /\ Range(shown) \cap {"answer", "error:query"} = {}

\* A submit with a question and a selection has been answered
C10_Witness ==
    /\ pc = "idle"
    /\ pressed
    /\ answer.ok
    /\ sources # <<>>
    /\ Len(search_results) > Len(sources)
    /\ Count(calls, "generate_content") = 1

----------------------------------------------------------------------------
(* rag.py:138-155: the command-line loop *)

\* rag.py:143: rag = RAGSystem()
CliStart ==
    /\ pc = "cli_start"
    /\ calls' = Append(calls, "RAGSystem")
    /\ \/ /\ rag_system' = [cached |-> TRUE, id |-> n_instances + 1]
          /\ n_instances' = n_instances + 1
          /\ pc' = "cli_input"
       \/ /\ pc' = "cli_start_failed"       \* uncaught: the process ends
          /\ UNCHANGED <<rag_system, n_instances>>
    /\ UNCHANGED <<diskVars, pressed, requestVars, shown, missing_files,
                   buildVars, loadVars>>

\* rag.py:147-149: query = input("Query: ")
CliInput ==
    /\ pc = "cli_input"
    /\ \E q \in QueryPool : user_query' = q
    /\ selected_sources' = NoFilter
    /\ k_arg' = DEFAULT_K
    /\ ResultsCleared
    /\ calls' = <<>>
    /\ shown' = <<>>
    /\ pc' = "cli_retrieve"
    /\ UNCHANGED <<diskVars, rag_system, pressed, missing_files, buildVars,
                   n_instances, loadVars>>

\* rag.py:140: SIGINT while waiting for input: sys.exit(0)
CliSigint ==
    /\ pc = "cli_input"
    /\ pc' = "cli_exit"
    /\ UNCHANGED <<diskVars, rag_system, pressed, requestVars, calls, shown,
                   missing_files, buildVars, n_instances, loadVars>>

\* rag.py:150, 134: self.get_relevant_context(user_query)
CliRetrieve ==
    /\ pc = "cli_retrieve"
    /\ calls' = Append(calls, "similarity_search")
    /\ \/ \E results \in SimilaritySearch(persist.index, k_arg) :
             LET r == get_relevant_context(results, selected_sources)
             IN /\ search_results' = results
                /\ context' = r.context
                /\ sources' = r.sources
                /\ pc' = "cli_prompt"
       \/ /\ pc' = "cli_crashed"            \* uncaught: the process ends
          /\ UNCHANGED <<search_results, context, sources>>
    /\ UNCHANGED <<diskVars, rag_system, pressed, user_query, selected_sources,
                   k_arg, prompt, sent, answer, shown, missing_files, buildVars,
                   n_instances, loadVars>>

\* rag.py:135
CliPrompt ==
    /\ pc = "cli_prompt"
    /\ calls' = Append(calls, "generate_prompt")
    /\ prompt' = generate_prompt(user_query, context, sources)
    /\ pc' = "cli_answer"
    /\ UNCHANGED <<diskVars, rag_system, pressed, user_query, selected_sources,
                   k_arg, search_results, context, sources, sent, answer, shown,
                   missing_files, buildVars, n_instances, loadVars>>

\* rag.py:136, 150-152: generate_answer, then print(answer)
CliAnswer ==
    /\ pc = "cli_answer"
    /\ calls' = Append(calls, "generate_content")
    /\ sent' = prompt
    /\ \/ \E text \in AnswerPool :
             /\ answer' = [ok |-> TRUE, text |-> text]
             /\ shown' = Append(shown, "answer")
             /\ pc' = "cli_input"
       \/ /\ answer' = NoAnswer
          /\ shown' = shown
          /\ pc' = "cli_crashed"            \* uncaught: the process ends
    /\ UNCHANGED <<diskVars, rag_system, pressed, user_query, selected_sources,
                   k_arg, search_results, context, sources, prompt,
                   missing_files, buildVars, n_instances, loadVars>>

\* What no front end has touched yet
Untouched ==
    /\ rag_system = NoRag
    /\ pressed = FALSE
    /\ user_query = <<>>
    /\ selected_sources = NoFilter
    /\ k_arg = DEFAULT_K
    /\ search_results = <<>>
    /\ context = <<>>
    /\ sources = <<>>
    /\ prompt = <<>>
    /\ sent = <<>>
    /\ answer = NoAnswer
    /\ calls = <<>>
    /\ shown = <<>>
    /\ missing_files = <<>>
    /\ build = NoBuild
    /\ n_builds = 0
    /\ n_instances = 0
    /\ pdf_paths = <<>>
    /\ docs = <<>>
    /\ loaded = FALSE

\* The process starts; the index directory is absent or was built by
\* generate_embeddings.main from what BOOKS_DIR held
InitCli ==
    /\ cwd \in [FileNames -> {"missing"}]
    /\ books_dir \in BooksDirPool
    /\ persist \in {AbsentDir} \cup {p \in {MainBuilt(books_dir)} : p.state = "nonempty"}
    /\ pc = "cli_start"
    /\ Untouched

NextCli ==
    \/ CliStart
    \/ CliInput
    \/ CliSigint
    \/ CliRetrieve
    \/ CliPrompt
    \/ CliAnswer

SpecCli == InitCli /\ [][NextCli]_vars

\* C6: an exception raised while a query is processed never ends the
\* interactive session: the front end (Streamlit or command line) is ready
\* again after the failed query, with the same RAGSystem.
C6_QueryErrorKeepsSession ==
    /\ pc # "cli_crashed"
    /\ "error:query" \in Range(shown) => pc = "idle" /\ rag_system.cached

----------------------------------------------------------------------------
(* RAGSystem.get_relevant_context on any index process_documents can give *)

\* Documents as they reach process_documents: with the loader's metadata,
\* with none, with only a page, with only a source
DocPool ==
    {Document(<<"a", NL, "b">>,
              Meta({"source", "page"}, BOOKS_DIR \o <<"/", "h", "1">>, PInt(0))),
     Document(<<"c">>, EmptyMeta),
     Document(<<"d">>, Meta({"page"}, <<>>, PInt(3))),
     Document(<<"e", NL>>, Meta({"source"}, <<"g">>, PStr(<<>>)))}

SeqsUpTo(S, n) == UNION {[1..m -> S] : m \in 0..n}

FilterStrings == {<<"h">>, <<"g">>, <<"U", "n">>, <<>>}
FilterPool == {NoFilter} \cup {Filter(items) : items \in SUBSET FilterStrings}
KPool == {0, 1, DEFAULT_K}

InitRetrieval ==
    /\ cwd \in [FileNames -> {"missing"}]
    /\ books_dir = [exists |-> FALSE, files |-> {}]
    /\ docs \in SeqsUpTo(DocPool, MaxResults)
    /\ persist = [state |-> IF process_documents(docs) = <<>> THEN "empty" ELSE "nonempty",
                  index |-> process_documents(docs)]
    /\ rag_system = [cached |-> TRUE, id |-> 1]
    /\ pc = "ready"
    /\ pressed = FALSE
    /\ user_query = <<>>
    /\ selected_sources = NoFilter
    /\ k_arg = DEFAULT_K
    /\ search_results = <<>>
    /\ context = <<>>
    /\ sources = <<>>
    /\ prompt = <<>>
    /\ sent = <<>>
    /\ answer = NoAnswer
    /\ calls = <<>>
    /\ shown = <<>>
    /\ missing_files = <<>>
    /\ build = NoBuild
    /\ n_builds = 0
    /\ n_instances = 1
    /\ pdf_paths = <<>>
    /\ loaded = FALSE

\* rag.py:67-98 with any query, k and selected_sources
GetRelevantContext ==
    /\ pc = "ready"
    /\ \E q \in QueryPool \ {<<>>}, k \in KPool, sel \in FilterPool :
         \E results \in SimilaritySearch(persist.index, k) :
             LET r == get_relevant_context(results, sel)
             IN /\ user_query' = q
                /\ k_arg' = k
                /\ selected_sources' = sel
                /\ search_results' = results
                /\ context' = r.context
                /\ sources' = r.sources
    /\ calls' = <<"similarity_search">>
    /\ pc' = "retrieved"
    /\ UNCHANGED <<diskVars, rag_system, pressed, prompt, sent, answer, shown,
                   missing_files, buildVars, n_instances, loadVars>>

NextRetrieval == GetRelevantContext

SpecRetrieval == InitRetrieval /\ [][NextRetrieval]_vars

\* The source a result is filtered and cited by: its 'source', or the
\* sentinel when it has none
CitedSource(result) ==
    IF "source" \in result.metadata.keys THEN result.metadata.source
    ELSE UNKNOWN_SOURCE

Matches(result, sel) == \E f \in sel.items : Contains(CitedSource(result), f)

ExpectedSource(result) ==
    [name |-> IF CitedSource(result) = UNKNOWN_SOURCE THEN UNKNOWN_SOURCE
              ELSE Basename(CitedSource(result)),
     page |-> IF "page" \in result.metadata.keys THEN result.metadata.page
              ELSE PStr(UNKNOWN_PAGE)]

\* Sum of lens[j] over the j < i that are in S
RECURSIVE OffsetBefore(_, _, _)
OffsetBefore(lens, S, i) ==
    IF i <= 1 THEN 0
    ELSE OffsetBefore(lens, S, i - 1) + (IF (i - 1) \in S THEN lens[i - 1] ELSE 0)

\* context and sources are those of the results at the positions in keep:
\* one Source per kept result and each kept text followed by a newline, both
\* in the order of the search results
AlignedWith(keep) ==
    LET R == search_results
        lens == [i \in 1..Len(R) |-> Len(R[i].page_content) + 1]
        rank(i) == Cardinality({j \in keep : j <= i})
    IN /\ Len(sources) = Cardinality(keep)
       /\ Len(context) = OffsetBefore(lens, keep, Len(R) + 1)
       /\ \A i \in keep :
            /\ sources[rank(i)] = ExpectedSource(R[i])
            /\ SubSeq(context, OffsetBefore(lens, keep, i) + 1,
                      OffsetBefore(lens, keep, i) + lens[i])
                  = R[i].page_content \o <<NL>>

\* C3 as stated: with a supplied filter (an empty list too) a result is kept
\* exactly when its source contains a filter string
C3_KeptIffMatchesSuppliedFilter ==
    pc = "retrieved" =>
        /\ Len(search_results) <= k_arg
        /\ AlignedWith({i \in 1..Len(search_results) :
                          selected_sources.none
                          \/ Matches(search_results[i], selected_sources)})

\* C3: with a non-empty filter a search result is kept exactly when its source
\* contains a filter string; with no filter or an empty one every result is
\* kept (at most k); the context is each kept text followed by a newline, in
\* search order, and sources holds one record per kept result in that order.
C3_KeptIffMatchesNonEmptyFilter ==
    pc = "retrieved" =>
        /\ Len(search_results) <= k_arg
        /\ AlignedWith({i \in 1..Len(search_results) :
                          selected_sources.none
                          \/ selected_sources.items = {}
                          \/ Matches(search_results[i], selected_sources)})

\* A non-empty filter kept the second of two results and dropped the first
C3_Witness ==
    /\ pc = "retrieved"
    /\ selected_sources.items # {}
    /\ Len(search_results) = 2
    /\ Len(sources) = 1
    /\ ~Matches(search_results[1], selected_sources)
    /\ context = search_results[2].page_content \o <<NL>>

\* The entries of the index whose document had no metadata
IndexedWithoutMetadata ==
    {persist.index[i] : i \in {j \in 1..Len(persist.index) :
                                  SplitDocuments(docs)[j].metadata = EmptyMeta}}

CitedAsUnknown(r) ==
    /\ Source(UNKNOWN_SOURCE, PStr(UNKNOWN_PAGE)) \in Range(sources)
    /\ Contains(context, r.page_content \o <<NL>>)

\* C2 as stated: a returned chunk that was indexed with no metadata is always
\* in the output, as "Unknown source" / "Unknown page", whatever the filter
C2_UnknownNeverDropped ==
    pc = "retrieved" =>
        \A r \in Range(search_results) \cap IndexedWithoutMetadata : CitedAsUnknown(r)

\* C2: a returned chunk that was indexed with no metadata is in the output as
\* Source("Unknown source", "Unknown page") with its text in the context,
\* when no filter or an empty one is given or a filter string occurs in
\* "Unknown source"; under any other filter it is dropped by the filter.
C2_UnknownCitedUnlessFiltered ==
    pc = "retrieved" =>
        \A r \in Range(search_results) \cap IndexedWithoutMetadata :
            IF selected_sources.none \/ selected_sources.items = {}
               \/ \E f \in selected_sources.items : Contains(UNKNOWN_SOURCE, f)
            THEN CitedAsUnknown(r)
            ELSE /\ Source(UNKNOWN_SOURCE, PStr(UNKNOWN_PAGE)) \notin Range(sources)
                 /\ ~Contains(context, r.page_content)

\* A chunk indexed with no metadata was returned and cited as unknown
C2_Witness ==
    /\ pc = "retrieved"
    /\ Range(search_results) \cap IndexedWithoutMetadata # {}
    /\ Source(UNKNOWN_SOURCE, PStr(UNKNOWN_PAGE)) \in Range(sources)
    /\ selected_sources = NoFilter

\* C4: with a non-empty filter none of whose strings occurs in the source of
\* any index entry, the context and the source list are empty and the call
\* returns.
C4_NoMatchGivesEmpty ==
    /\ pc = "retrieved"
    /\ ~selected_sources.none
    /\ selected_sources.items # {}
    /\ \A i \in 1..Len(persist.index) : ~Matches(persist.index[i], selected_sources)
    => context = <<>> /\ sources = <<>>

\* A filter that matches nothing was applied to a non-empty result list
C4_Witness ==
    /\ pc = "retrieved"
    /\ selected_sources.items # {}
    /\ \A i \in 1..Len(persist.index) : ~Matches(persist.index[i], selected_sources)
    /\ search_results # <<>>
    /\ context = <<>>
    /\ sources = <<>>

----------------------------------------------------------------------------
(* RAGSystem.generate_prompt and generate_answer on any input *)

ContextPool == {<<>>, <<"a", NL, "b", NL>>, <<NL, BACKSLASH, "n", NL>>}
SourcePool == {Source(<<"h", "1">>, PInt(12)),
               Source(UNKNOWN_SOURCE, PStr(UNKNOWN_PAGE))}

InitPrompt ==
    /\ cwd \in [FileNames -> {"missing"}]
    /\ books_dir = [exists |-> FALSE, files |-> {}]
    /\ persist = AbsentDir
    /\ pc = "ready"
    /\ Untouched

\* rag.py:100-125 with any query, context and sources
GeneratePrompt ==
    /\ pc \in {"ready", "answered"}
    /\ \E q \in QueryPool, c \in ContextPool, srcs \in SeqsUpTo(SourcePool, MaxSources) :
          /\ user_query' = q
          /\ context' = c
          /\ sources' = srcs
          /\ prompt' = generate_prompt(q, c, srcs)
    /\ pc' = "prompted"
    /\ UNCHANGED <<diskVars, rag_system, pressed, selected_sources, k_arg,
                   search_results, sent, answer, calls, shown, missing_files,
                   buildVars, n_instances, loadVars>>

\* rag.py:127-130 with the prompt just assembled
GenerateAnswer ==
    /\ pc = "prompted"
    /\ sent' = prompt
    /\ \/ \E text \in AnswerPool : answer' = [ok |-> TRUE, text |-> text]
       \/ answer' = NoAnswer
    /\ pc' = "answered"
    /\ UNCHANGED <<diskVars, rag_system, pressed, user_query, selected_sources,
                   k_arg, search_results, context, sources, prompt, calls, shown,
                   missing_files, buildVars, n_instances, loadVars>>

NextPrompt ==
    \/ GeneratePrompt
    \/ GenerateAnswer

SpecPrompt == InitPrompt /\ [][NextPrompt]_vars

\* The position of the one element of the prompt that is the template text t
PlaceOf(t) == CHOOSE i \in 1..Len(prompt) : prompt[i] = t

\* What the prompt holds between "CONTEXTE: '" and the closing quote
ContextPortion ==
    SubSeq(prompt, PlaceOf("CONTEXTE: '") + 1, Len(prompt) - Len(PROMPT_TAIL))

\* What the prompt holds between the sources heading and the question
SourcesPortion ==
    SubSeq(prompt, PlaceOf("Voici les sources disponibles:") + 2,
           PlaceOf("QUESTION: '") - 3)

NewlinesBefore(i) == Cardinality({j \in 1..(i - 1) : context[j] = NL})

\* Where line i of the sources listing starts in SourcesPortion
RECURSIVE LineStart(_)
LineStart(i) ==
    IF i = 1 THEN 1
    ELSE LineStart(i - 1) + 4 + Len(StrOfInt(i - 1)) + Len(sources[i - 1].name)
         + Len(PageStr(sources[i - 1].page))

C9_Shape ==
    pc \in {"prompted", "answered"} =>
        /\ Cardinality({i \in 1..Len(prompt) : prompt[i] = "CONTEXTE: '"}) = 1
        /\ NL \notin Range(ContextPortion)
        /\ Len(ContextPortion) = Len(context) + Count(context, NL)
        /\ \A i \in 1..Len(context) :
              IF context[i] = NL
              THEN /\ ContextPortion[i + NewlinesBefore(i)] = BACKSLASH
                   /\ ContextPortion[i + NewlinesBefore(i) + 1] = "n"
              ELSE ContextPortion[i + NewlinesBefore(i)] = context[i]
        /\ SubSeq(prompt, PlaceOf("QUESTION: '") + 1,
                  PlaceOf("QUESTION: '") + Len(user_query)) = user_query
        /\ Count(SourcesPortion, "Source ") = Len(sources)
        /\ Count(SourcesPortion, NL) = (IF sources = <<>> THEN 0 ELSE Len(sources) - 1)
        /\ \A i \in 1..Len(sources) :
              LET line == <<"Source ">> \o StrOfInt(i) \o <<": ">> \o sources[i].name
                          \o <<", Page: ">>
                          \o (IF sources[i].page.isInt THEN StrOfInt(sources[i].page.n)
                              ELSE sources[i].page.s)
              IN SubSeq(SourcesPortion, LineStart(i), LineStart(i) + Len(line) - 1) = line

C9_Step ==
    prompt' # prompt \/ pc' = "prompted" =>
        UNCHANGED <<persist, rag_system, search_results, sent, answer, calls, shown>>

\* C9: generate_prompt reads only (query, context, sources) and touches
\* neither the index nor the generative model; in the prompt every newline of
\* the context is the two characters backslash and n, so the context portion
\* holds no raw newline, and the sources are listed from 1 in input order as
\* "Source i: name, Page: page".
C9_PromptEscapesAndLists == []C9_Shape /\ [][C9_Step]_vars

\* A prompt for a context with newlines and two sources was assembled after
\* an earlier prompt had been sent to the model
C9_Witness ==
    /\ pc = "prompted"
    /\ Count(context, NL) >= 2
    /\ Len(sources) = 2
    /\ sent # <<>>
    /\ sent # prompt

----------------------------------------------------------------------------
(* DocumentProcessor.load_documents on any list of paths *)

PathPool == FileNames \cup {<<"x">>}

InitLoad ==
    /\ cwd \in [FileNames -> FileStatus]
    /\ books_dir = [exists |-> FALSE, files |-> {}]
    /\ persist = AbsentDir
    /\ pc = "ready"
    /\ rag_system = NoRag
    /\ pressed = FALSE
    /\ user_query = <<>>
    /\ selected_sources = NoFilter
    /\ k_arg = DEFAULT_K
    /\ search_results = <<>>
    /\ context = <<>>
    /\ sources = <<>>
    /\ prompt = <<>>
    /\ sent = <<>>
    /\ answer = NoAnswer
    /\ calls = <<>>
    /\ shown = <<>>
    /\ missing_files = <<>>
    /\ build = NoBuild
    /\ n_builds = 0
    /\ n_instances = 0
    /\ pdf_paths \in SeqsUpTo(PathPool, MaxPaths)
    /\ docs = <<>>
    /\ loaded = FALSE

\* generate_embeddings.py:46-72
LoadDocuments ==
    /\ pc = "ready"
    /\ docs' = load_documents(pdf_paths, cwd)
    /\ loaded' = TRUE
    /\ calls' = Append(calls, "load_documents")
    /\ pc' = "loaded"
    /\ UNCHANGED <<diskVars, rag_system, pressed, requestVars, shown,
                   missing_files, buildVars, n_instances, pdf_paths>>

NextLoad == LoadDocuments

SpecLoad == InitLoad /\ [][NextLoad]_vars

\* The positions of pdf_paths whose file exists and can be read
Readable ==
    {i \in 1..Len(pdf_paths) : pdf_paths[i] \in FileNames /\ cwd[pdf_paths[i]] = "ok"}

\* C8: load_documents returns, in the order of the paths, the page documents
\* of exactly the paths that exist and load; a missing or unreadable path
\* adds nothing, raises nothing and stops no later path from being loaded.
C8_LoadSkipsBadFiles ==
    loaded =>
        LET lens == [i \in 1..Len(pdf_paths) |-> Len(PyPDFLoad(pdf_paths[i]))]
        IN /\ pc = "loaded"
           /\ Len(docs) = OffsetBefore(lens, Readable, Len(pdf_paths) + 1)
           /\ \A i \in Readable :
                SubSeq(docs, OffsetBefore(lens, Readable, i) + 1,
                       OffsetBefore(lens, Readable, i) + lens[i])
                   = PyPDFLoad(pdf_paths[i])

\* An unreadable file came first and the file after it was still loaded
C8_Witness ==
    /\ loaded
    /\ Len(pdf_paths) = 2
    /\ pdf_paths[1] \in FileNames
    /\ cwd[pdf_paths[1]] = "corrupt"
    /\ 2 \in Readable
    /\ docs = PyPDFLoad(pdf_paths[2])
    /\ docs # <<>>

====
